---- MODULE Spec2Model ----
(***************************************************************************)
(* State machine of the ImageCompressorApp component                       *)
(* (src/unnamed/part_001): the React state of the page, the browser's      *)
(* object-URL store, the pending toast timers and the compression requests *)
(* in flight, with one action per event handler or callback.               *)
(*                                                                         *)
(* Each handler runs to completion on the single browser thread; React     *)
(* batches the state setters of one handler (the last setter of a state    *)
(* wins) and re-renders before the next event, so an action is the whole   *)
(* handler followed by the render and its effects.  A callback created by  *)
(* a handler keeps the state values of the render it was created in: the   *)
(* success callback of a compression reads the selectedFile and previewUrl *)
(* of the moment of the trigger, which the request record carries.         *)
(***************************************************************************)
EXTENDS Integers, Sequences, FiniteSets, TLC

\* ------------------------------------------------------------------------
\* Bounds of the model
\* ------------------------------------------------------------------------
\* pending dismissal timers of showToast (all of them fire within 3 s)
MaxTimers == 3
\* object-URL identities the browser hands out
MaxUrls == 3
\* navigator.share calls whose promise is not yet settled
MaxShares == 1

\* ------------------------------------------------------------------------
\* Program constants
\* ------------------------------------------------------------------------
\* useState(70), setCompressionLevel(70)
DefaultLevel == 70
\* 20 * 1024 * 1024
MaxFileSize == 20971520
\* Math.max(1024, ...)
MinSimulatedSize == 1024
\* validTypes
ValidTypes == {"image/jpeg", "image/png", "image/gif", "image/webp", "image/jpg"}

\* ------------------------------------------------------------------------
\* Values
\* ------------------------------------------------------------------------
\* file names are strings, modelled as sequences of characters
NameCat   == <<"c", "a", "t", ".", "j", "p", "g">>
NameDots  == <<"a", ".", "b", ".", "p", "n", "g">>
NameNoExt == <<"r", "a", "w">>
NoName    == <<>>

MkFile(n, s, t) == [name |-> n, size |-> s, type |-> t]

\* '': the empty value of the file input, as a sequence of characters like
\* the names
EmptyValue == <<>>

\* null / undefined file
NoFile == MkFile(NoName, -1, "null")

\* the files the user can pick or drop
Files ==
  { MkFile(NameCat,   2000000,  "image/jpeg"),
    MkFile(NameDots,  20971520, "image/png"),
    MkFile(NameNoExt, 1024,     "image/gif"),
    MkFile(NameDots,  20000,    "image/jpg"),
    MkFile(NameDots,  20971521, "image/png"),
    MkFile(NameCat,   2000000,  "application/pdf") }

\* positions of the slider (min 10, max 100) the model tries
Levels == {57, 70}

\* '' as previewUrl
NoUrl == 0

NoToast == [message |-> "", type |-> "null", detail |-> "", tenths |-> 0]
MkToast(m, t, d, p) == [message |-> m, type |-> t, detail |-> d, tenths |-> p]

\* messages of the errors the external library reports
ErrorMessages == {"Failed to load the image.", "Aborted to read the image with FileReader."}

\* message of a rejection of navigator.share other than a cancellation
ShareErrorMessages == {"Permission denied"}

\* what the browser offers: no navigator.share; navigator.share without
\* navigator.canShare; canShare answering false or true for the file
Platforms == {"noShare", "noCanShare", "canShareFalse", "canShareTrue"}

\* how the promise of navigator.share settles
ShareOutcomes == {"resolved", "AbortError", "otherError"}

VARIABLES
  selectedFile,          \* useState(null)
  previewUrl,            \* useState('')
  compressionLevel,      \* useState(70)
  isCompressing,         \* useState(false)
  isRealCompressorLoaded,\* useState(false)
  toast,                 \* useState(null)
  compressedHistory,     \* useState([])
  liveUrls,              \* object URLs created and not yet revoked
  toastTimers,           \* pending setTimeout(() => setToast(null), 3000)
  pending,               \* compressors constructed, callback not yet invoked
  windowCompressor,      \* typeof window.Compressor !== 'undefined'
  checkCompressor,       \* the 200 ms detection interval is still set
  ownTimers,             \* the last of toastTimers set by the handler run
                         \* that emitted the live toast (they are due together)
  sharing,               \* navigator.share promises awaited by handleShare
  successes,             \* history variable: success callbacks since the last
                         \* clearHistory or accepted upload
  standIn,               \* one construction of the stand-in Compressor seen
                         \* from inside: its inputs, its timers, the calls
                         \* it has made (StandInSpec; none in Spec)
  inputValue,            \* the value of the <input type="file"> element
  lastOp                 \* history variable: the handler that ran last
                         \* ("compressSuccessReplaced": a success callback
                         \* that found another file selected)

vars == <<selectedFile, previewUrl, compressionLevel, isCompressing,
          isRealCompressorLoaded, toast, compressedHistory, liveUrls,
          toastTimers, pending, windowCompressor, checkCompressor,
          ownTimers, sharing, successes, lastOp, standIn, inputValue>>

\* ------------------------------------------------------------------------
\* Pure helpers
\* ------------------------------------------------------------------------
Max(a, b) == IF a >= b THEN a ELSE b

\* URL.revokeObjectURL
RevokeNothing(live, u) == live
RevokeObjectURL(live, u) == live \ {u}

\* cleanup of the previewUrl effect: when a render changes previewUrl the
\* cleanup of the previous render revokes the previous non-empty value
CleanupNothing(live, old, new) == live
CleanupEffect(live, old, new) ==
  IF old # new /\ old # NoUrl THEN RevokeObjectURL(live, old) ELSE live

\* URL.createObjectURL returns a URL that is in use nowhere else
UsedUrls ==
  liveUrls \cup {previewUrl} \cup {pending[i].previewUrl : i \in 1..Len(pending)}
FreshUrl == CHOOSE u \in 1..MaxUrls : u \notin UsedUrls

\* !validTypes.includes(file.type)
IsInvalidType(file) == file.type \notin ValidTypes

\* file.size > 20 * 1024 * 1024
IsOversizedInclusive(file) == file.size >= MaxFileSize
IsOversized(file) == file.size > MaxFileSize

\* originalSize * quality * 0.5 is a product of IEEE-754 doubles with
\* quality = compressionLevel / 100, which is not exact: on these pairs of
\* the sizes of Files and of Levels the product lies just below the integer
\* originalSize * compressionLevel / 200 (20000 * 0.57 * 0.5 is
\* 5699.999999999999), on the other pairs Math.floor gives the exact floor
DoubleProductBelow == {<<20000, 57>>}

\* Math.max(1024, Math.floor(originalSize * quality)), without the factor 0.5
SimulatedSizeWithoutHalf(originalSize, level) ==
  Max(MinSimulatedSize, (originalSize * level) \div 100)

\* Math.max(1024, Math.floor(originalSize * quality * 0.5))
SimulatedCompressedSize(originalSize, level) ==
  LET exact == (originalSize * level) \div 200
      floor == IF <<originalSize, level>> \in DoubleProductBelow
               THEN exact - 1 ELSE exact
  IN Max(MinSimulatedSize, floor)

\* name.split('.'): the segments between the dots
RECURSIVE SplitDots(_)
SplitDots(s) ==
  IF \A i \in 1..Len(s) : s[i] # "."
  THEN <<s>>
  ELSE LET k == CHOOSE i \in 1..Len(s) :
                  s[i] = "." /\ \A j \in 1..(i - 1) : s[j] # "."
       IN <<SubSeq(s, 1, k - 1)>> \o SplitDots(SubSeq(s, k + 1, Len(s)))

\* parts.join('.')
RECURSIVE JoinDots(_)
JoinDots(parts) ==
  IF Len(parts) = 0 THEN <<>>
  ELSE IF Len(parts) = 1 THEN parts[1]
  ELSE parts[1] \o <<".">> \o JoinDots(Tail(parts))

\* `${baseName}_ai.${extension}` with extension = parts.pop()
NewFileName(name) ==
  LET parts     == SplitDots(name)
      extension == parts[Len(parts)]
      baseName  == JoinDots(SubSeq(parts, 1, Len(parts) - 1))
  IN baseName \o <<"_", "a", "i", ".">> \o extension

\* floor and remainder of 1000 * c / o (o > 0), by long division so that no
\* intermediate value leaves the 32-bit integers
Permille(c, o) ==
  LET r0 == c % o
      r1 == (10 * r0) % o
      r2 == (10 * r1) % o
  IN [q   |-> 1000 * (c \div o) + 100 * ((10 * r0) \div o)
               + 10 * ((10 * r1) \div o) + ((10 * r2) \div o),
      rem |-> (10 * r2) % o]

\* (100 - (result.size / selectedFile.size) * 100).toFixed(1), in tenths of a
\* percent: the nearest tenth, a tie going away from zero
SavedTenths(c, o) ==
  LET p  == Permille(c, o)
      hi == 1000 - p.q
  IN IF p.rem = 0 THEN hi
     ELSE IF hi > 0 THEN (IF 2 * p.rem <= o THEN hi ELSE hi - 1)
     ELSE (IF 2 * p.rem < o THEN hi ELSE hi - 1)

\* a zero selectedFile.size makes the quotient Infinity or NaN
SavedDetail(c, o) ==
  IF o # 0 THEN "percent" ELSE IF c = 0 THEN "NaN" ELSE "-Infinity"

SavedToast(c, o) ==
  MkToast("Image compressed successfully! Saved %", "success",
          SavedDetail(c, o), IF o # 0 THEN SavedTenths(c, o) ELSE 0)

\* ------------------------------------------------------------------------
\* Initial state: the values of useState at mount
\* ------------------------------------------------------------------------
\* the stand-in is not looked into
NoStandIn ==
  [phase |-> "none", isFile |-> FALSE, size |-> 0, type |-> "null",
   quality |-> 0, hasProgress |-> FALSE, progress |-> 0, interval |-> FALSE,
   timeouts |-> 0, ticks |-> 0, successCalls |-> 0, errorCalls |-> 0,
   progressCalls |-> 0, thrown |-> 0, resultSize |-> 0, resultType |-> "null"]

InitApp ==
  /\ selectedFile = NoFile
  /\ previewUrl = NoUrl
  /\ compressionLevel = DefaultLevel
  /\ isCompressing = FALSE
  /\ isRealCompressorLoaded = FALSE
  /\ toast = NoToast
  /\ compressedHistory = <<>>
  /\ liveUrls = {}
  /\ toastTimers = 0
  /\ pending = <<>>
  /\ windowCompressor \in BOOLEAN
  /\ checkCompressor = TRUE
  /\ ownTimers = 0
  /\ sharing = 0
  /\ successes = 0
  /\ inputValue = EmptyValue
  /\ lastOp = "mount"

Init ==
  /\ InitApp
  /\ standIn = NoStandIn

\* ------------------------------------------------------------------------
\* Detection of the external library
\* ------------------------------------------------------------------------
\* the CDN script defines window.Compressor at some moment after mount
LibraryLoads ==
  /\ ~windowCompressor
  /\ windowCompressor' = TRUE
  /\ lastOp' = "libraryLoads"
  /\ UNCHANGED <<inputValue, standIn, selectedFile, previewUrl, compressionLevel, isCompressing,
                 isRealCompressorLoaded, toast, compressedHistory, liveUrls,
                 toastTimers, pending, checkCompressor, ownTimers, sharing,
                 successes>>

\* the first tick of setInterval(..., 200): both branches clear the interval
CheckCompressor ==
  /\ checkCompressor
  /\ isRealCompressorLoaded' = windowCompressor
  /\ checkCompressor' = FALSE
  /\ lastOp' = "checkCompressor"
  /\ UNCHANGED <<inputValue, standIn, selectedFile, previewUrl, compressionLevel, isCompressing,
                 toast, compressedHistory, liveUrls, toastTimers, pending,
                 windowCompressor, ownTimers, sharing, successes>>

\* ------------------------------------------------------------------------
\* Toasts
\* ------------------------------------------------------------------------
\* setTimeout(() => setToast(null), 3000) fires.  Every timer has the same
\* delay, so the timers fire in the order they were set: the one that fires
\* is the oldest, which is a timer of the live toast only when no older one
\* is pending (toastTimers = ownTimers)
ToastTimeout ==
  /\ toastTimers > 0
  /\ toast' = NoToast
  /\ toastTimers' = toastTimers - 1
  /\ ownTimers' = 0
  /\ lastOp' = "toastTimeout"
  /\ UNCHANGED <<inputValue, standIn, selectedFile, previewUrl, compressionLevel, isCompressing,
                 isRealCompressorLoaded, compressedHistory, liveUrls, pending,
                 windowCompressor, checkCompressor, sharing, successes>>

\* onClose={() => setToast(null)}: the close button of the rendered toast
CloseToast ==
  /\ toast # NoToast
  /\ toast' = NoToast
  /\ ownTimers' = 0
  /\ lastOp' = "closeToast"
  /\ UNCHANGED <<inputValue, standIn, selectedFile, previewUrl, compressionLevel, isCompressing,
                 isRealCompressorLoaded, compressedHistory, liveUrls,
                 toastTimers, pending, windowCompressor, checkCompressor,
                 sharing, successes>>

\* ------------------------------------------------------------------------
\* Upload: handleFileChange, called by the file input and by handleDrop
\* ------------------------------------------------------------------------
\* the branch handleFileChange takes on e.target.files[0]
UploadOutcome(file) ==
  IF file = NoFile THEN "uploadAbsent"
  ELSE IF IsInvalidType(file) THEN "uploadWrongType"
  ELSE IF IsOversized(file) THEN "uploadOversized"
  ELSE "uploadAccepted"

\* the toast of the last showToast of handleFileChange
UploadToast(outcome) ==
  IF outcome = "uploadAbsent"
    THEN MkToast("No file selected.", "error", "", 0)
  ELSE IF outcome = "uploadWrongType"
    THEN MkToast("Unsupported file type. Please upload JPG, JPEG, PNG, GIF, or WEBP images.",
                 "error", "", 0)
  ELSE IF outcome = "uploadOversized"
    THEN MkToast("File size should be less than 20MB.", "error", "", 0)
  ELSE MkToast("Image uploaded successfully!", "success", "", 0)

HandleFileChange(file) ==
  LET outcome  == UploadOutcome(file)
      \* if (previewUrl) URL.revokeObjectURL(previewUrl)
      revoked  == IF previewUrl # NoUrl
                  THEN RevokeObjectURL(liveUrls, previewUrl) ELSE liveUrls
      accepted == outcome = "uploadAccepted"
      url      == FreshUrl
  IN \* showToast("Processing file...") and the showToast of the outcome
     /\ toastTimers + 2 <= MaxTimers
     /\ toastTimers' = toastTimers + 2
     /\ lastOp' = outcome
     /\ selectedFile' = IF accepted THEN file ELSE NoFile
     /\ accepted => \E u \in 1..MaxUrls : u \notin UsedUrls
     /\ compressedHistory' = <<>>
     /\ compressionLevel' = DefaultLevel
     /\ previewUrl' = IF accepted THEN url ELSE NoUrl
     /\ liveUrls' = CleanupEffect(IF accepted THEN revoked \cup {url} ELSE revoked,
                                  previewUrl, previewUrl')
     /\ toast' = UploadToast(outcome)
     /\ ownTimers' = 2
     /\ successes' = IF accepted THEN 0 ELSE successes
     /\ UNCHANGED <<standIn, isCompressing, isRealCompressorLoaded, pending,
                    windowCompressor, checkCompressor, sharing>>

\* the value of the file input when its change event is dispatched: the
\* browser's fake path of the chosen file, empty when the list of files is
\* empty
ChosenValue(file) ==
  IF file = NoFile THEN EmptyValue ELSE <<"C:\\fakepath\\">> \o file.name

\* handleFileChange that never assigns e.target.value
ResetsValueNever(outcome) == FALSE

\* e.target.value = '' is the last statement of the accepted branch, of the
\* wrong-type branch and of the oversized branch of handleFileChange; the
\* branch of the absent file returns without it
ResetsValue(outcome) == outcome # "uploadAbsent"

\* e.target.value when handleFileChange returns
TargetValue(outcome, entered) ==
  IF ResetsValue(outcome) THEN EmptyValue ELSE entered

\* the change event of the file input: e.target is the input element
PickFile ==
  \E file \in Files \cup {NoFile} :
    /\ HandleFileChange(file)
    /\ inputValue' = TargetValue(UploadOutcome(file), ChosenValue(file))

\* handleDrop: forwards dataTransfer.files[0] when there is one
HandleDrop ==
  \E file \in Files :
    /\ HandleFileChange(file)
    \* e.target is the literal { files, value: '' }, not the input element
    /\ UNCHANGED inputValue

\* onChange of the slider, rendered while a file is selected
HandleSlider ==
  /\ selectedFile # NoFile
  /\ \E v \in Levels : compressionLevel' = v
  /\ lastOp' = "slider"
  /\ UNCHANGED <<inputValue, standIn, selectedFile, previewUrl, isCompressing,
                 isRealCompressorLoaded, toast, compressedHistory, liveUrls,
                 toastTimers, pending, windowCompressor, checkCompressor,
                 ownTimers, sharing, successes>>

\* ------------------------------------------------------------------------
\* Compression: handleCompress and the callbacks it hands to the compressor
\* ------------------------------------------------------------------------
\* disabled={isCompressing} of the Compress button
TriggerEnabledAlways == FALSE
TriggerDisabled == isCompressing

\* if (!selectedFile)
NoSelectionNever == FALSE
NoSelection == selectedFile = NoFile

\* new CompressorToUse(selectedFile, { quality: 70 / 100, ... })
RequestAtDefaultLevel ==
  [file       |-> selectedFile,
   level      |-> DefaultLevel,
   previewUrl |-> previewUrl,
   real       |-> isRealCompressorLoaded]

\* new CompressorToUse(selectedFile, { quality: compressionLevel / 100, ... }):
\* the request keeps what the callbacks close over
Request ==
  [file       |-> selectedFile,
   level      |-> compressionLevel,
   previewUrl |-> previewUrl,
   real       |-> isRealCompressorLoaded]

\* handleCompress without setIsCompressing(true)
HandleCompressNotBusy ==
  /\ ~NoSelection => ~TriggerDisabled
  /\ toastTimers + 1 <= MaxTimers
  /\ toastTimers' = toastTimers + 1
  /\ IF NoSelection
     THEN /\ toast' = MkToast("Please upload an image to compress.", "error", "", 0)
          /\ ownTimers' = 1
          /\ lastOp' = "compressNoSelection"
          /\ UNCHANGED <<isCompressing, pending>>
     ELSE /\ toast' = NoToast
          /\ ownTimers' = 0
          /\ UNCHANGED isCompressing
          /\ pending' = Append(pending, Request)
          /\ lastOp' = "compressTrigger"
  /\ UNCHANGED <<inputValue, standIn, selectedFile, previewUrl, compressionLevel,
                 isRealCompressorLoaded, compressedHistory, liveUrls,
                 windowCompressor, checkCompressor, sharing, successes>>

\* handleCompress.  The Compress button is rendered while a file is selected
\* and is disabled while isCompressing; without a selection there is no
\* button and the handler is called directly.
HandleCompress ==
  /\ ~NoSelection => ~TriggerDisabled
  /\ toastTimers + 1 <= MaxTimers
  /\ toastTimers' = toastTimers + 1
  /\ IF NoSelection
     THEN /\ toast' = MkToast("Please upload an image to compress.", "error", "", 0)
          /\ ownTimers' = 1
          /\ lastOp' = "compressNoSelection"
          /\ UNCHANGED <<isCompressing, pending>>
     ELSE \* showToast("Compressing image...") and then setToast(null)
          /\ toast' = NoToast
          /\ ownTimers' = 0
          /\ isCompressing' = TRUE
          /\ pending' = Append(pending, Request)
          /\ lastOp' = "compressTrigger"
  /\ UNCHANGED <<inputValue, standIn, selectedFile, previewUrl, compressionLevel,
                 isRealCompressorLoaded, compressedHistory, liveUrls,
                 windowCompressor, checkCompressor, sharing, successes>>

\* the Blob the compressor hands to success: the stand-in names it and gives
\* it the simulated size; the external library is free in both
Results(r) ==
  IF r.real
  THEN { [name |-> n, size |-> s, type |-> r.file.type] :
           n \in {NoName, r.file.name}, s \in {r.file.size \div 2, r.file.size} }
  ELSE { [name |-> NewFileName(r.file.name),
          size |-> SimulatedCompressedSize(r.file.size, r.level),
          type |-> r.file.type] }

\* result.name || `${baseName}_ai.${extension}` of selectedFile.name
FileNameToUse(r, result) ==
  IF result.name # NoName THEN result.name ELSE NewFileName(r.file.name)

\* the entry, were it read from the Selection of the latest render
HistoryEntryOfSelection(r, result) ==
  [originalFileName   |-> selectedFile.name,
   originalSize       |-> selectedFile.size,
   compressedFileName |-> FileNameToUse(r, result),
   compressedSize     |-> result.size,
   blobType           |-> result.type]

\* the entry: selectedFile is the one of the render that handleCompress
\* closed over
HistoryEntry(r, result) ==
  [originalFileName   |-> r.file.name,
   originalSize       |-> r.file.size,
   compressedFileName |-> FileNameToUse(r, result),
   compressedSize     |-> result.size,
   blobType           |-> result.type]

\* setCompressedHistory(prevHistory => [entry, ...prevHistory])
PrependTwice(entry, prevHistory) == <<entry, entry>> \o prevHistory
PrependEntry(entry, prevHistory) == <<entry>> \o prevHistory

RemoveAt(seq, i) == SubSeq(seq, 1, i - 1) \o SubSeq(seq, i + 1, Len(seq))

\* success(result) without setSelectedFile(null)
CompressSuccessKeepsSelection(i, result) ==
  LET r       == pending[i]
      revoked == IF r.previewUrl # NoUrl
                 THEN RevokeObjectURL(liveUrls, r.previewUrl) ELSE liveUrls
  IN /\ toastTimers + 1 <= MaxTimers
     /\ toastTimers' = toastTimers + 1
     /\ compressedHistory' = PrependEntry(HistoryEntry(r, result), compressedHistory)
     /\ successes' = successes + 1
     /\ ownTimers' = 1
     /\ isCompressing' = FALSE
     /\ toast' = SavedToast(result.size, r.file.size)
     /\ previewUrl' = NoUrl
     /\ liveUrls' = CleanupEffect(revoked, previewUrl, NoUrl)
     /\ compressionLevel' = DefaultLevel
     /\ pending' = RemoveAt(pending, i)
     /\ lastOp' = IF selectedFile \in {NoFile, r.file}
                  THEN "compressSuccess" ELSE "compressSuccessReplaced"
     /\ UNCHANGED <<inputValue, standIn, selectedFile, isRealCompressorLoaded, windowCompressor,
                    checkCompressor, sharing>>

\* success(result) without setIsCompressing(false)
CompressSuccessStaysBusy(i, result) ==
  LET r       == pending[i]
      revoked == IF r.previewUrl # NoUrl
                 THEN RevokeObjectURL(liveUrls, r.previewUrl) ELSE liveUrls
  IN /\ toastTimers + 1 <= MaxTimers
     /\ toastTimers' = toastTimers + 1
     /\ compressedHistory' = PrependEntry(HistoryEntry(r, result), compressedHistory)
     /\ successes' = successes + 1
     /\ ownTimers' = 1
     /\ UNCHANGED isCompressing
     /\ toast' = SavedToast(result.size, r.file.size)
     /\ selectedFile' = NoFile
     /\ previewUrl' = NoUrl
     /\ liveUrls' = CleanupEffect(revoked, previewUrl, NoUrl)
     /\ compressionLevel' = DefaultLevel
     /\ pending' = RemoveAt(pending, i)
     /\ lastOp' = IF selectedFile \in {NoFile, r.file}
                  THEN "compressSuccess" ELSE "compressSuccessReplaced"
     /\ UNCHANGED <<inputValue, standIn, isRealCompressorLoaded, windowCompressor, checkCompressor,
                    sharing>>

\* success(result) of the request at position i of pending
CompressSuccess(i, result) ==
  LET r       == pending[i]
      \* if (previewUrl) URL.revokeObjectURL(previewUrl), on the closure's url
      revoked == IF r.previewUrl # NoUrl
                 THEN RevokeObjectURL(liveUrls, r.previewUrl) ELSE liveUrls
  IN /\ toastTimers + 1 <= MaxTimers
     /\ toastTimers' = toastTimers + 1
     /\ compressedHistory' = PrependEntry(HistoryEntry(r, result), compressedHistory)
     /\ successes' = successes + 1
     /\ ownTimers' = 1
     /\ isCompressing' = FALSE
     /\ toast' = SavedToast(result.size, r.file.size)
     /\ selectedFile' = NoFile
     /\ previewUrl' = NoUrl
     /\ liveUrls' = CleanupEffect(revoked, previewUrl, NoUrl)
     /\ compressionLevel' = DefaultLevel
     /\ pending' = RemoveAt(pending, i)
     /\ lastOp' = IF selectedFile \in {NoFile, r.file}
                  THEN "compressSuccess" ELSE "compressSuccessReplaced"
     /\ UNCHANGED <<inputValue, standIn, isRealCompressorLoaded, windowCompressor, checkCompressor,
                    sharing>>

\* error(err) that also clears the selection
CompressErrorClearsSelection(i, msg) ==
  /\ toastTimers + 1 <= MaxTimers
  /\ toastTimers' = toastTimers + 1
  /\ toast' = MkToast("Compression failed: . Please try again.", "error", msg, 0)
  /\ isCompressing' = FALSE
  /\ selectedFile' = NoFile
  /\ pending' = RemoveAt(pending, i)
  /\ ownTimers' = 1
  /\ lastOp' = "compressError"
  /\ UNCHANGED <<inputValue, standIn, previewUrl, compressionLevel, isRealCompressorLoaded,
                 compressedHistory, liveUrls, windowCompressor, checkCompressor,
                 sharing, successes>>

\* error(err) of the request at position i of pending
CompressError(i, msg) ==
  /\ toastTimers + 1 <= MaxTimers
  /\ toastTimers' = toastTimers + 1
  /\ toast' = MkToast("Compression failed: . Please try again.", "error", msg, 0)
  /\ isCompressing' = FALSE
  /\ pending' = RemoveAt(pending, i)
  /\ ownTimers' = 1
  /\ lastOp' = "compressError"
  /\ UNCHANGED <<inputValue, standIn, selectedFile, previewUrl, compressionLevel,
                 isRealCompressorLoaded, compressedHistory, liveUrls,
                 windowCompressor, checkCompressor, sharing, successes>>

\* the compressor of a request completes: the stand-in always with success
\* (selectedFile is a File), the external library with success or error
CompressorSucceeds ==
  \E i \in 1..Len(pending) : \E result \in Results(pending[i]) :
    CompressSuccess(i, result)

\* the 500 ms timeout of a stand-in in flight fires
StandInCompletes ==
  \E i \in 1..Len(pending) : \E result \in Results(pending[i]) :
    /\ ~pending[i].real
    /\ CompressSuccess(i, result)

\* a tick of the interval of a stand-in in flight: it throws before it calls
\* progress (IntervalTick) and the page's state is as before
ProgressTick ==
  /\ \E i \in 1..Len(pending) : ~pending[i].real
  /\ lastOp' = "progressTick"
  /\ UNCHANGED <<inputValue, standIn, selectedFile, previewUrl, compressionLevel,
                 isCompressing, isRealCompressorLoaded, toast,
                 compressedHistory, liveUrls, toastTimers, pending,
                 windowCompressor, checkCompressor, ownTimers, sharing,
                 successes>>

CompressorFails ==
  \E i \in 1..Len(pending) : \E msg \in ErrorMessages :
    /\ pending[i].real
    /\ CompressError(i, msg)

\* clearHistory that also puts the quality back to its default
ClearHistoryResetsQuality ==
  /\ toastTimers + 1 <= MaxTimers
  /\ toastTimers' = toastTimers + 1
  /\ compressedHistory' = <<>>
  /\ compressionLevel' = DefaultLevel
  /\ toast' = MkToast("Compression history cleared!", "info", "", 0)
  /\ ownTimers' = 1
  /\ successes' = 0
  /\ lastOp' = "clearHistory"
  /\ UNCHANGED <<inputValue, standIn, selectedFile, previewUrl, isCompressing,
                 isRealCompressorLoaded, liveUrls, pending, windowCompressor,
                 checkCompressor, sharing>>

\* clearHistory whose showToast sets no dismissal timer
ClearHistoryNoTimer ==
  /\ toastTimers + 1 <= MaxTimers
  /\ compressedHistory' = <<>>
  /\ toast' = MkToast("Compression history cleared!", "info", "", 0)
  /\ ownTimers' = 0
  /\ successes' = 0
  /\ lastOp' = "clearHistory"
  /\ UNCHANGED <<inputValue, standIn, selectedFile, previewUrl, compressionLevel, isCompressing,
                 isRealCompressorLoaded, liveUrls, toastTimers, pending,
                 windowCompressor, checkCompressor, sharing>>

\* clearHistory
ClearHistory ==
  /\ toastTimers + 1 <= MaxTimers
  /\ toastTimers' = toastTimers + 1
  /\ compressedHistory' = <<>>
  /\ toast' = MkToast("Compression history cleared!", "info", "", 0)
  /\ ownTimers' = 1
  /\ successes' = 0
  /\ lastOp' = "clearHistory"
  /\ UNCHANGED <<inputValue, standIn, selectedFile, previewUrl, compressionLevel, isCompressing,
                 isRealCompressorLoaded, liveUrls, pending, windowCompressor,
                 checkCompressor, sharing>>

\* ------------------------------------------------------------------------
\* Download and share of a history entry
\* ------------------------------------------------------------------------
\* handleDownload without URL.revokeObjectURL(url)
HandleDownloadWithoutRevoke(hasBlob, hasName) ==
  LET url == FreshUrl
  IN /\ toastTimers + 1 <= MaxTimers
     /\ toastTimers' = toastTimers + 1
     /\ ownTimers' = 1
     /\ IF ~hasBlob \/ ~hasName
        THEN /\ toast' = MkToast("Error: No file data to download.", "error", "", 0)
             /\ lastOp' = "downloadNoData"
             /\ UNCHANGED liveUrls
        ELSE /\ Len(compressedHistory) > 0
             /\ \E u \in 1..MaxUrls : u \notin UsedUrls
             /\ liveUrls' = liveUrls \cup {url}
             /\ toast' = MkToast("Image downloaded!", "success", "", 0)
             /\ lastOp' = "download"
     /\ UNCHANGED <<inputValue, standIn, selectedFile, previewUrl, compressionLevel, isCompressing,
                    isRealCompressorLoaded, compressedHistory, pending,
                    windowCompressor, checkCompressor, sharing, successes>>

\* handleDownload(fileBlob, fileName).  The Download button of an entry
\* passes the entry's blob and name; a call with a missing argument is a
\* direct call of the handler.
HandleDownload(hasBlob, hasName) ==
  LET url == FreshUrl
  IN /\ toastTimers + 1 <= MaxTimers
     /\ toastTimers' = toastTimers + 1
     /\ ownTimers' = 1
     /\ IF ~hasBlob \/ ~hasName
        THEN /\ toast' = MkToast("Error: No file data to download.", "error", "", 0)
             /\ lastOp' = "downloadNoData"
             /\ UNCHANGED liveUrls
        ELSE /\ Len(compressedHistory) > 0
             /\ \E u \in 1..MaxUrls : u \notin UsedUrls
             \* createObjectURL, link.click(), revokeObjectURL
             /\ liveUrls' = RevokeObjectURL(liveUrls \cup {url}, url)
             /\ toast' = MkToast("Image downloaded!", "success", "", 0)
             /\ lastOp' = "download"
     /\ UNCHANGED <<inputValue, standIn, selectedFile, previewUrl, compressionLevel, isCompressing,
                    isRealCompressorLoaded, compressedHistory, pending,
                    windowCompressor, checkCompressor, sharing, successes>>

Download ==
  \E hasBlob \in BOOLEAN : \E hasName \in BOOLEAN : HandleDownload(hasBlob, hasName)

\* handleShare(fileBlob, fileName) up to its await, or to its end when it
\* does not reach the await:
\*   if (navigator.share && navigator.canShare({ files: [shareFile] }))
\* calls navigator.canShare whenever navigator.share is there, which throws a
\* TypeError when canShare is not a function: the async handler ends there,
\* its promise rejected and nothing notified
HandleShare(hasBlob, platform) ==
  /\ hasBlob => Len(compressedHistory) > 0
  /\ IF ~hasBlob
     THEN /\ toastTimers + 1 <= MaxTimers
          /\ toastTimers' = toastTimers + 1
          /\ ownTimers' = 1
          /\ toast' = MkToast("No compressed file to share.", "error", "", 0)
          /\ lastOp' = "shareNoFile"
          /\ UNCHANGED sharing
     ELSE IF platform = "noCanShare"
     THEN /\ lastOp' = "shareTypeError"
          /\ UNCHANGED <<toast, toastTimers, ownTimers, sharing>>
     ELSE IF platform = "canShareTrue"
     THEN /\ sharing < MaxShares
          /\ sharing' = sharing + 1
          /\ lastOp' = "shareInvoked"
          /\ UNCHANGED <<toast, toastTimers, ownTimers>>
     ELSE /\ toastTimers + 1 <= MaxTimers
          /\ toastTimers' = toastTimers + 1
          /\ ownTimers' = 1
          /\ toast' = MkToast("Your browser does not support sharing files directly. Please download and share manually.",
                              "info", "", 0)
          /\ lastOp' = "shareUnsupported"
          /\ UNCHANGED sharing
  /\ UNCHANGED <<inputValue, standIn, selectedFile, previewUrl, compressionLevel, isCompressing,
                 isRealCompressorLoaded, compressedHistory, liveUrls, pending,
                 windowCompressor, checkCompressor, successes>>

Share ==
  \E hasBlob \in BOOLEAN : \E platform \in Platforms : HandleShare(hasBlob, platform)

\* the rest of handleShare once the promise of navigator.share settles
ShareSettles(outcome, msg) ==
  /\ sharing > 0
  /\ sharing' = sharing - 1
  /\ toastTimers + 1 <= MaxTimers
  /\ toastTimers' = toastTimers + 1
  /\ ownTimers' = 1
  /\ toast' = IF outcome = "resolved"
                 THEN MkToast("Image shared successfully!", "success", "", 0)
               ELSE IF outcome = "AbortError"
                 THEN MkToast("Sharing cancelled.", "info", "", 0)
               ELSE MkToast("Failed to share image: ", "error", msg, 0)
  /\ lastOp' = IF outcome = "resolved" THEN "shareResolved"
               ELSE IF outcome = "AbortError" THEN "shareCancelled"
               ELSE "shareFailed"
  /\ UNCHANGED <<inputValue, standIn, selectedFile, previewUrl, compressionLevel, isCompressing,
                 isRealCompressorLoaded, compressedHistory, liveUrls, pending,
                 windowCompressor, checkCompressor, successes>>

SharePromise ==
  \E outcome \in ShareOutcomes : \E msg \in ShareErrorMessages :
    ShareSettles(outcome, msg)

Next ==
  \/ LibraryLoads
  \/ CheckCompressor
  \/ ToastTimeout
  \/ CloseToast
  \/ PickFile
  \/ HandleDrop
  \/ HandleSlider
  \/ HandleCompress
  \/ CompressorSucceeds
  \/ CompressorFails
  \/ ClearHistory
  \/ Download
  \/ Share
  \/ SharePromise

Spec == Init /\ [][Next]_vars

\* The page without the external library during a compression, for the
\* liveness of the busy state: the detection, the uploads, the slider, the
\* trigger, the ticks of the stand-in's interval (which change nothing of
\* the page and are left out of Next) and the completion.  Timers that are set do fire: the 3 s timers
\* of the notifications, and the 100 ms and 500 ms timeouts of a stand-in in
\* flight, which wait for nothing (its success step is disabled here only
\* while MaxTimers timers are set)
LiveInit ==
  /\ Init
  /\ ~windowCompressor

LiveNext ==
  \/ CheckCompressor
  \/ ToastTimeout
  \/ PickFile
  \/ HandleDrop
  \/ HandleSlider
  \/ HandleCompress
  \/ ProgressTick
  \/ StandInCompletes

LiveSpec ==
  /\ LiveInit
  /\ [][LiveNext]_vars
  /\ WF_vars(ToastTimeout)
  /\ SF_vars(StandInCompletes)

\* The whole page with the timers of the notifications firing: a timer set
\* by setTimeout(..., 3000) is run by the browser's event loop, whatever the
\* handlers do in the meantime
ToastSpec ==
  /\ Init
  /\ [][Next]_vars
  /\ WF_vars(ToastTimeout)

\* ------------------------------------------------------------------------
\* The stand-in Compressor from inside: one construction, its timers and the
\* callbacks it invokes
\* ------------------------------------------------------------------------
appVars == <<selectedFile, previewUrl, compressionLevel, isCompressing,
             isRealCompressorLoaded, toast, compressedHistory, liveUrls,
             toastTimers, pending, windowCompressor, checkCompressor,
             ownTimers, sharing, successes, lastOp, inputValue>>

\* options.quality in hundredths; NoQuality: options.quality === undefined
NoQuality == -1
DefaultQuality == 80
StandInQualities == {NoQuality, 10, 57, 70, 100}
StandInSizes == {0, 1024, 20000, 2000000}
StandInTypes == {"image/jpeg", "image/png"}

\* progress += 10; ... progress <= 100
ProgressStep == 10
ProgressMax == 100
\* the interval of 50 ms ticks 9 times (50 ms .. 450 ms) before the timeout
\* of 500 ms set with it can fire; its 10th tick is due together with that
\* timeout, its 11th after it
TicksBeforeFinish == 9
MaxTicks == 10

\* the names bound where the interval's callback calls options.progress
TickScope == {"file", "options", "progress", "progressInterval"}

\* options.quality !== undefined ? options.quality : 1
QualityOrOne(q) == IF q # NoQuality THEN q ELSE 100
\* options.quality !== undefined ? options.quality : 0.8
QualityOrDefault(q) == IF q # NoQuality THEN q ELSE DefaultQuality

\* a construction new Compressor(file, options) about to run; options has
\* success and error, as the options of handleCompress have
Constructions ==
  { [NoStandIn EXCEPT !.phase = "new", !.isFile = f, !.size = sz, !.type = t,
                      !.quality = q, !.hasProgress = p] :
      f \in BOOLEAN, sz \in StandInSizes, t \in StandInTypes,
      q \in StandInQualities, p \in BOOLEAN }

InitStandIn ==
  /\ InitApp
  /\ standIn \in Constructions

\* the constructor's synchronous part
Construct ==
  /\ standIn.phase = "new"
  /\ standIn' = IF ~standIn.isFile
                  THEN [standIn EXCEPT !.phase = "returned", !.errorCalls = @ + 1]
                  ELSE [standIn EXCEPT !.phase = "delay", !.timeouts = 1]
  /\ UNCHANGED appVars

\* the callback of setTimeout(..., 100): sets the interval and the timeout
\* of 500 ms
StartTimeout ==
  /\ standIn.phase = "delay"
  /\ standIn' = [standIn EXCEPT !.phase = "running", !.progress = 0,
                                !.interval = TRUE, !.timeouts = 1]
  /\ UNCHANGED appVars

\* a tick of the interval.  options.progress(percentage) evaluates its
\* argument first, and percentage is no name in scope: the tick throws a
\* ReferenceError, the interval stays set
IntervalTick ==
  /\ standIn.phase = "running"
  /\ standIn.interval
  /\ standIn.ticks < MaxTicks
  /\ LET p == standIn.progress + ProgressStep
     IN standIn' =
          IF standIn.hasProgress /\ p <= ProgressMax
          THEN IF "percentage" \in TickScope
               THEN [standIn EXCEPT !.progress = p, !.ticks = @ + 1,
                                    !.progressCalls = @ + 1]
               ELSE [standIn EXCEPT !.progress = p, !.ticks = @ + 1,
                                    !.thrown = @ + 1]
          ELSE [standIn EXCEPT !.progress = p, !.ticks = @ + 1,
                               !.interval = FALSE]
  /\ UNCHANGED appVars

\* the callback of setTimeout(..., 500) without clearInterval
FinishTimeoutKeepsInterval ==
  /\ standIn.phase = "running"
  /\ standIn.interval => standIn.ticks >= TicksBeforeFinish
  /\ standIn' =
       [standIn EXCEPT
          !.phase = "done", !.timeouts = 0,
          !.resultSize = SimulatedCompressedSize(standIn.size,
                                                 QualityOrDefault(standIn.quality)),
          !.resultType = standIn.type,
          !.successCalls = @ + 1]
  /\ UNCHANGED appVars

\* the callback of setTimeout(..., 500): clears the interval, builds the
\* blob and calls options.success
FinishTimeout ==
  /\ standIn.phase = "running"
  /\ standIn.interval => standIn.ticks >= TicksBeforeFinish
  /\ standIn' =
       [standIn EXCEPT
          !.phase = "done", !.interval = FALSE, !.timeouts = 0,
          !.resultSize = SimulatedCompressedSize(standIn.size,
                                                 QualityOrDefault(standIn.quality)),
          !.resultType = standIn.type,
          !.successCalls = @ + 1]
  /\ UNCHANGED appVars

StandInNext ==
  \/ Construct
  \/ StartTimeout
  \/ IntervalTick
  \/ FinishTimeout

StandInSpec == InitStandIn /\ [][StandInNext]_vars

\* ------------------------------------------------------------------------
\* Properties
\* ------------------------------------------------------------------------
\* the rejected and the accepted upload attempts, as the contract names them
RejectedFile(file) ==
  \/ file = NoFile
  \/ file.type \notin {"image/jpeg", "image/png", "image/gif", "image/webp", "image/jpg"}
  \/ file.size > 20 * 1024 * 1024

AcceptedFile(file) ==
  /\ file # NoFile
  /\ file.type \in {"image/jpeg", "image/png", "image/gif", "image/webp", "image/jpg"}
  /\ file.size <= 20 * 1024 * 1024

\* the error message that names the constraint the file violates
ConstraintMessage(file) ==
  IF file = NoFile THEN "No file selected."
  ELSE IF file.type \notin {"image/jpeg", "image/png", "image/gif", "image/webp", "image/jpg"}
    THEN "Unsupported file type. Please upload JPG, JPEG, PNG, GIF, or WEBP images."
  ELSE "File size should be less than 20MB."

\* the step is a run of handleFileChange, of the success callback, of the
\* error callback (each handler records itself in lastOp)
UploadStep ==
  lastOp' \in {"uploadAbsent", "uploadWrongType", "uploadOversized", "uploadAccepted"}
SuccessStep == lastOp' \in {"compressSuccess", "compressSuccessReplaced"}
ErrorStep == lastOp' = "compressError"

\* C1: an upload attempt with an absent, wrongly typed or oversized file
\* leaves the Selection exactly as it was before the attempt, and its
\* notification is an error naming the violated constraint.
C1_RejectedUploadKeepsSelection ==
  [][UploadStep =>
       \A file \in Files \cup {NoFile} :
           (HandleFileChange(file) /\ RejectedFile(file))
             => /\ selectedFile' = selectedFile
                /\ toast'.type = "error"
                /\ toast'.message = ConstraintMessage(file)]_vars

\* C2: an upload attempt, in any state, with a file of an allowed type and
\* of at most 20 MiB (20971520 bytes included) makes that file the Selection
\* and leaves a success notification as the live notification.
C2_AcceptedUploadSelects ==
  [][UploadStep =>
       \A file \in Files :
           (HandleFileChange(file) /\ AcceptedFile(file))
             => /\ selectedFile' = file
                /\ toast' = MkToast("Image uploaded successfully!", "success", "", 0)]_vars

\* a file of exactly 20 MiB was accepted while a compression was in flight
C2_Witness ==
  /\ lastOp = "uploadAccepted"
  /\ selectedFile.size = 20 * 1024 * 1024
  /\ isCompressing

\* C3: a rejected upload attempt changes nothing but the notification: the
\* history, the quality parameter, the busy flag and the preview reference
\* are the same after the attempt as before it.
C3_RejectedUploadFrame ==
  [][UploadStep =>
       \A file \in Files \cup {NoFile} :
           (HandleFileChange(file) /\ RejectedFile(file))
             => /\ compressedHistory' = compressedHistory
                /\ compressionLevel' = compressionLevel
                /\ isCompressing' = isCompressing
                /\ previewUrl' = previewUrl]_vars

\* C4: after an accepted upload the quality parameter is 70, the history is
\* empty, the previous preview reference is released and the new preview
\* reference of the accepted file is the only live one.
C4_AcceptedUploadResets ==
  [][UploadStep =>
       \A file \in Files :
           (HandleFileChange(file) /\ AcceptedFile(file))
             => /\ compressionLevel' = 70
                /\ compressedHistory' = <<>>
                /\ previewUrl # NoUrl => previewUrl \notin liveUrls'
                /\ previewUrl' # NoUrl
                /\ previewUrl' # previewUrl
                /\ liveUrls' = {previewUrl'}]_vars

\* an upload was accepted when an earlier preview reference existed
C4_Witness ==
  /\ lastOp = "uploadAccepted"
  /\ previewUrl > 1
  /\ compressionLevel = 70

\* C5: handleCompress without a Selection emits an error notification, does
\* not construct a compressor, does not raise the busy flag (it stays as it
\* was, false when nothing is in flight) and leaves the history unchanged.
C5_TriggerWithoutSelection ==
  [][(HandleCompress /\ selectedFile = NoFile)
       => /\ toast' = MkToast("Please upload an image to compress.", "error", "", 0)
          /\ pending' = pending
          /\ isCompressing' = isCompressing
          /\ ~isCompressing => ~isCompressing'
          /\ compressedHistory' = compressedHistory]_vars

\* handleCompress ran without a Selection, on a page with a history entry
C5_Witness ==
  /\ lastOp = "compressNoSelection"
  /\ selectedFile = NoFile
  /\ ~isCompressing
  /\ Len(compressedHistory) = 1

\* C6: the success callback, in one step, puts one new entry at the head of
\* the history with the previous entries behind it, emits a success
\* notification, makes the Selection null, the quality 70 and the busy flag
\* false.
C6_SuccessStep ==
  [][SuccessStep =>
       \A i \in 1..Len(pending) : \A result \in Results(pending[i]) :
           CompressSuccess(i, result)
             => /\ Len(compressedHistory') = Len(compressedHistory) + 1
                /\ Tail(compressedHistory') = compressedHistory
                /\ Head(compressedHistory').originalFileName = pending[i].file.name
                /\ Head(compressedHistory').compressedSize = result.size
                /\ toast'.type = "success"
                /\ selectedFile' = NoFile
                /\ compressionLevel' = 70
                /\ isCompressing' = FALSE]_vars

\* a compression has just succeeded after the slider had been moved
C6_Witness ==
  /\ lastOp = "compressSuccess"
  /\ Len(compressedHistory) = 1
  /\ compressedHistory[1].compressedSize = 5699
  /\ compressedHistory[1].originalSize = 20000

\* C7: the error callback emits an error notification carrying the message
\* of the failure, clears the busy flag and leaves the history and the
\* Selection as they were immediately before it.
C7_ErrorStep ==
  [][ErrorStep =>
       \A i \in 1..Len(pending) : \A msg \in ErrorMessages :
           CompressError(i, msg)
             => /\ toast'.type = "error"
                /\ toast'.detail = msg
                /\ isCompressing' = FALSE
                /\ compressedHistory' = compressedHistory
                /\ selectedFile' = selectedFile]_vars

\* a compression has just failed and its file is still selected
C7_Witness ==
  /\ lastOp = "compressError"
  /\ selectedFile # NoFile
  /\ ~isCompressing
  /\ toast.type = "error"

\* C8: at most one compression request is outstanding in every state, and a
\* step that constructs a compressor starts from a state whose busy flag is
\* false.
C8_AtMostOneOutstanding ==
  [][/\ Len(pending') <= 1
     /\ Len(pending') > Len(pending) => ~isCompressing]_vars

\* one request is outstanding and a file accepted meanwhile is selected
C8_Witness ==
  /\ Len(pending) = 1
  /\ isCompressing
  /\ lastOp = "uploadAccepted"
  /\ selectedFile # pending[1].file

\* C9: in every state the busy flag implies a non-null Selection.
C9_BusyImpliesSelection ==
  isCompressing => selectedFile # NoFile

\* C10: every success of the stand-in yields a compressed size strictly
\* below the original size, and so a reported saving above zero.
C10_StandInStrictlySmaller ==
  [][SuccessStep =>
       \A i \in 1..Len(pending) : \A result \in Results(pending[i]) :
           (CompressSuccess(i, result) /\ ~pending[i].real)
             => /\ result.size < pending[i].file.size
                /\ toast'.detail = "percent"
                /\ toast'.tenths > 0]_vars

\* ------------------------------------------------------------------------
\* Output file names
\* ------------------------------------------------------------------------
\* position of the last "." of a name, 0 when it has none
LastDot(name) ==
  IF \E k \in 1..Len(name) : name[k] = "."
  THEN CHOOSE k \in 1..Len(name) :
         name[k] = "." /\ \A j \in (k + 1)..Len(name) : name[j] # "."
  ELSE 0

\* the name with "_ai" put before its last extension segment; a name without
\* a dot is all base name, so that the marker follows it
MarkedName(name) ==
  IF LastDot(name) = 0 THEN name \o <<"_", "a", "i">>
  ELSE SubSeq(name, 1, LastDot(name) - 1) \o <<"_", "a", "i">>
       \o SubSeq(name, LastDot(name), Len(name))

\* C11: every history entry, whichever compressor produced it and whatever
\* the dots of the selected file's name, records as output name the original
\* base name, then "_ai", then "." and the original extension (for a name
\* without a dot: the name, then "_ai")
C11_OutputNameIsMarkedOriginal ==
  \A k \in 1..Len(compressedHistory) :
    LET e == compressedHistory[k]
    IN SubSeq(e.compressedFileName, 1, Len(MarkedName(e.originalFileName)))
         = MarkedName(e.originalFileName)

\* ------------------------------------------------------------------------
\* History
\* ------------------------------------------------------------------------
\* C12: after N successful compressions with no clear of the history and no
\* new upload in between, the history holds exactly N entries
C12_HistoryHoldsEverySuccess ==
  Len(compressedHistory) = successes

\* C13: a step leaves the history unchanged, or empties it, or adds one entry
\* at its head above all the previous entries, which keep their content and
\* their order
C13_HistoryStep ==
  [][\/ compressedHistory' = compressedHistory
     \/ compressedHistory' = <<>>
     \/ /\ Len(compressedHistory') = Len(compressedHistory) + 1
        /\ Tail(compressedHistory') = compressedHistory]_vars

\* a success callback has added an entry to the history
C13_Witness ==
  /\ lastOp = "compressSuccess"
  /\ Len(compressedHistory) = 1
  /\ compressedHistory[1].originalFileName = NameCat

ClearStep == lastOp' = "clearHistory"

\* C14: clearHistory empties the history whatever its size, emits an info
\* notification, and leaves the Selection, the quality, the busy flag and the
\* preview reference as they were
C14_ClearHistoryStep ==
  [][ClearStep =>
       /\ compressedHistory' = <<>>
       /\ toast' # NoToast
       /\ toast'.type = "info"
       /\ selectedFile' = selectedFile
       /\ compressionLevel' = compressionLevel
       /\ isCompressing' = isCompressing
       /\ previewUrl' = previewUrl
       /\ liveUrls' = liveUrls]_vars

\* the history was cleared during a compression at a quality the user chose
C14_Witness ==
  /\ lastOp = "clearHistory"
  /\ compressedHistory = <<>>
  /\ selectedFile # NoFile
  /\ isCompressing
  /\ compressionLevel # DefaultLevel
  /\ previewUrl # NoUrl

\* ------------------------------------------------------------------------
\* Notifications
\* ------------------------------------------------------------------------
\* C15: a notification that is neither overwritten nor closed by hand stays
\* for the whole delay counted from its own emission: the timer that
\* dismisses a live notification is one set when it was emitted, never the
\* timer of an earlier notification
C15_DismissedByOwnTimer ==
  [][(lastOp' = "toastTimeout" /\ toast # NoToast /\ toast' = NoToast)
       => toastTimers = ownTimers]_vars

\* ------------------------------------------------------------------------
\* The example scenario
\* ------------------------------------------------------------------------
NameCatAi == <<"c", "a", "t", "_", "a", "i", ".", "j", "p", "g">>

\* the request in flight is the stand-in's, for cat.jpg (2,000,000 bytes,
\* image/jpeg) at quality 70
ExampleRequest ==
  /\ Len(pending) = 1
  /\ pending[1].file = MkFile(NameCat, 2000000, "image/jpeg")
  /\ pending[1].level = 70
  /\ ~pending[1].real

\* C16: compressing cat.jpg (2,000,000 bytes, image/jpeg) at quality 70
\* through the stand-in gives a history entry of 700,000 bytes named
\* cat_ai.jpg and a success notification that reports 65.0%
C16_ExampleScenario ==
  [][(SuccessStep /\ ExampleRequest) =>
       /\ Len(compressedHistory') > 0
       /\ Head(compressedHistory').originalSize = 2000000
       /\ Head(compressedHistory').compressedSize = 700000
       /\ Head(compressedHistory').compressedFileName = NameCatAi
       /\ toast'.type = "success"
       /\ toast'.detail = "percent"
       /\ toast'.tenths = 650]_vars

\* the example has run to its success notification
C16_Witness ==
  /\ lastOp = "compressSuccess"
  /\ ~isRealCompressorLoaded
  /\ Len(compressedHistory) = 1
  /\ compressedHistory[1].originalFileName = NameCat
  /\ compressedHistory[1].originalSize = 2000000
  /\ compressedHistory[1].compressedSize = 700000
  /\ compressedHistory[1].compressedFileName = NameCatAi
  /\ toast.type = "success"
  /\ toast.tenths = 650

\* ------------------------------------------------------------------------
\* Share and download
\* ------------------------------------------------------------------------
ShareStep ==
  lastOp' \in {"shareNoFile", "shareUnsupported", "shareTypeError",
               "shareInvoked", "shareResolved", "shareCancelled", "shareFailed"}

\* the step emits exactly one notification, of the given type
NotifiesOnce(type) ==
  /\ toast' # NoToast
  /\ toast'.type = type
  /\ toastTimers' = toastTimers + 1

\* C17: on every platform a share of a history entry ends with exactly one
\* notification: info "unsupported", without a call of the share capability,
\* unless the platform shares files natively; when it does, success once the
\* share resolves, info once it is cancelled (AbortError), error with the
\* message on any other rejection.  No step of a share changes the Selection,
\* the history or the busy flag
C17_ShareNotifiesOnce ==
  [][ShareStep =>
       /\ \A platform \in Platforms \ {"canShareTrue"} :
            HandleShare(TRUE, platform)
              => NotifiesOnce("info") /\ sharing' = sharing
       /\ HandleShare(TRUE, "canShareTrue")
            => sharing' = sharing + 1 /\ toastTimers' = toastTimers
       /\ \A msg \in ShareErrorMessages :
            /\ ShareSettles("resolved", msg) => NotifiesOnce("success")
            /\ ShareSettles("AbortError", msg) => NotifiesOnce("info")
            /\ ShareSettles("otherError", msg)
                 => NotifiesOnce("error") /\ toast'.detail = msg
       /\ selectedFile' = selectedFile
       /\ compressedHistory' = compressedHistory
       /\ isCompressing' = isCompressing]_vars

DownloadStep == lastOp' \in {"download", "downloadNoData"}

\* C18: a download creates one reference to the payload and releases it
\* before it ends, so that no step of a download leaves a reference behind;
\* without a payload or a name it notifies an error and creates none.
\* A download changes neither Selection, history, quality nor busy flag
C18_DownloadStep ==
  [][DownloadStep =>
       /\ liveUrls' = liveUrls
       /\ lastOp' = "download" => NotifiesOnce("success")
       /\ lastOp' = "downloadNoData" => NotifiesOnce("error")
       /\ selectedFile' = selectedFile
       /\ compressedHistory' = compressedHistory
       /\ compressionLevel' = compressionLevel
       /\ isCompressing' = isCompressing]_vars

\* an entry of the history was downloaded and no reference is left
C18_Witness ==
  /\ lastOp = "download"
  /\ Len(compressedHistory) = 1
  /\ toast.message = "Image downloaded!"
  /\ liveUrls = {}

\* ------------------------------------------------------------------------
\* Preview references and the Selection under concurrency
\* ------------------------------------------------------------------------
\* C19: at most one preview reference is unreleased, and only while a file is
\* selected, and then it is the reference of that Selection's preview; also
\* after an upload accepted during a compression and the end of that
\* compression
C19_NoPreviewLeak ==
  /\ Cardinality(liveUrls) <= 1
  /\ liveUrls # {} => (selectedFile # NoFile /\ liveUrls = {previewUrl})

\* a compression has succeeded after another file had been accepted, and
\* neither that file's preview reference nor the earlier one is left
C19_Witness ==
  /\ lastOp = "compressSuccessReplaced"
  /\ liveUrls = {}
  /\ previewUrl = NoUrl
  /\ Len(compressedHistory) = 1

\* C20: a Selection lasts until a compression of that same file succeeds or
\* an upload replaces it: when another file was accepted during a
\* compression, the success of that compression leaves the Selection alone
C20_SuccessKeepsOtherSelection ==
  [][(/\ SuccessStep
      /\ Len(pending) = 1
      /\ selectedFile # NoFile
      /\ selectedFile # pending[1].file)
       => selectedFile' = selectedFile]_vars

\* the request in flight was triggered before the upload that selected the
\* present file: its closure holds another preview reference
AcceptedSinceTrigger ==
  /\ Len(pending) = 1
  /\ previewUrl # NoUrl
  /\ previewUrl # pending[1].previewUrl

\* C21: the history that an accepted upload has emptied never receives the
\* entry of a compression that was in flight when the upload was accepted
C21_FreshHistoryStaysFresh ==
  [][(SuccessStep /\ AcceptedSinceTrigger)
       => compressedHistory' = compressedHistory]_vars

\* C22: the history never holds more than one entry
C22_AtMostOneEntry ==
  Len(compressedHistory) <= 1

\* the one entry is there, nothing is selected and nothing is in flight
C22_Witness ==
  /\ Len(compressedHistory) = 1
  /\ successes = 1
  /\ selectedFile = NoFile
  /\ pending = <<>>
  /\ lastOp = "closeToast"

\* C23: the busy flag is true exactly while one compression request is
\* outstanding, and a trigger with a file selected constructs one compressor
C23_BusyIffOutstanding ==
  /\ isCompressing <=> Len(pending) = 1
  /\ Len(pending) <= 1

\* a request is outstanding at a quality the user chose, and the page is busy
C23_Witness ==
  /\ isCompressing
  /\ Len(pending) = 1
  /\ lastOp = "compressTrigger"
  /\ pending[1].level # DefaultLevel

\* ------------------------------------------------------------------------
\* Quality
\* ------------------------------------------------------------------------
\* C28: the quality is an integer of 10..100, 70 at mount and after every
\* upload attempt and every success; a request is handed the level of the
\* moment of its trigger (as level / 100), and no later step, a move of the
\* slider included, changes the quality of a request in flight
C28_Quality ==
  /\ compressionLevel = 70
  /\ [][/\ compressionLevel' \in 10..100
        /\ (UploadStep \/ SuccessStep) => compressionLevel' = 70
        /\ lastOp' = "compressTrigger"
             => /\ Len(pending') = Len(pending) + 1
                /\ pending'[Len(pending')].level = compressionLevel
        /\ Len(pending') = Len(pending) => pending' = pending]_vars

\* the slider was moved during a compression requested at another quality
C28_Witness ==
  /\ lastOp = "slider"
  /\ Len(pending) = 1
  /\ pending[1].level = 57
  /\ compressionLevel = 70
  /\ selectedFile = pending[1].file

\* ------------------------------------------------------------------------
\* What a success callback records
\* ------------------------------------------------------------------------
\* C29: the entry of a compression records the name and the size of the file
\* that was selected when it was triggered, and the percentage of its success
\* notification is computed from that size, whatever has become of the
\* Selection in the meantime
C29_EntryOfTriggerFile ==
  [][(SuccessStep /\ Len(pending) = 1) =>
       /\ Len(compressedHistory') > 0
       /\ Head(compressedHistory').originalFileName = pending[1].file.name
       /\ Head(compressedHistory').originalSize = pending[1].file.size
       /\ toast'.detail = "percent"
       /\ toast'.tenths = SavedTenths(Head(compressedHistory').compressedSize,
                                      pending[1].file.size)]_vars

\* cat.jpg was compressed by the stand-in after another file had been
\* accepted, and the entry and the percentage are those of cat.jpg
C29_Witness ==
  /\ lastOp = "compressSuccessReplaced"
  /\ Len(compressedHistory) = 1
  /\ compressedHistory[1].originalFileName = NameCat
  /\ compressedHistory[1].originalSize = 2000000
  /\ compressedHistory[1].compressedSize = 570000
  /\ toast.tenths = 715

\* ------------------------------------------------------------------------
\* Choice of the compressor
\* ------------------------------------------------------------------------
\* C30: a compression triggered while the external library is present in the
\* page is handed to the external library, not to the stand-in, whenever the
\* library arrived and whenever the trigger happens
C30_LibraryPresentIsUsed ==
  [][(lastOp' = "compressTrigger" /\ windowCompressor)
       => pending'[Len(pending')].real]_vars

\* ------------------------------------------------------------------------
\* The stand-in Compressor (StandInSpec)
\* ------------------------------------------------------------------------
\* C25: a construction of the stand-in invokes exactly one of success and
\* error, once: error, with no timer started, when the input is no File,
\* success otherwise; once it has done so no timer is left that could invoke
\* the progress callback
C25_OneCallbackOnce ==
  /\ standIn.successCalls + standIn.errorCalls <= 1
  /\ standIn.phase = "returned"
       => /\ ~standIn.isFile
          /\ standIn.errorCalls = 1
          /\ standIn.timeouts = 0 /\ ~standIn.interval /\ standIn.ticks = 0
  /\ standIn.phase = "done"
       => /\ standIn.isFile
          /\ standIn.successCalls = 1
          /\ standIn.timeouts = 0 /\ ~standIn.interval
  /\ standIn.phase \in {"delay", "running"}
       => /\ standIn.isFile
          /\ standIn.successCalls + standIn.errorCalls = 0
          /\ standIn.timeouts = 1

\* success was called after nine ticks of an interval that was still set
C25_Witness ==
  /\ standIn.phase = "done"
  /\ standIn.hasProgress
  /\ standIn.ticks = TicksBeforeFinish
  /\ standIn.successCalls = 1
  /\ standIn.errorCalls = 0

\* C26: between the start of the simulated compression and the success
\* callback the stand-in invokes the caller's progress callback, at least
\* once
C26_ProgressReported ==
  (standIn.phase = "done" /\ standIn.hasProgress)
    => standIn.progressCalls >= 1

\* the level the output size is computed from, 0.8 standing in for a missing
\* quality
ClaimedLevel == IF standIn.quality = NoQuality THEN 80 ELSE standIn.quality
ClaimedSize == Max(1024, (standIn.size * ClaimedLevel) \div 200)

\* C27 as stated: the output size is max(1024, floor(originalSize * level /
\* 200)), the output has the input's MIME type, a missing quality counts 0.8
C27_ExactIntegerFormula ==
  standIn.phase = "done"
    => /\ standIn.resultSize = ClaimedSize
       /\ standIn.resultType = standIn.type

\* C27 amended: the output size is max(1024, floor(p)) for the product p of
\* doubles originalSize * quality * 0.5; it is never more than
\* max(1024, floor(originalSize * level / 200)), at most one byte less, and
\* never below 1024; the output has the input's MIME type and a missing
\* quality counts 0.8
C27_SizeWithinOneOfFormula ==
  standIn.phase = "done"
    => /\ standIn.resultSize \in {ClaimedSize - 1, ClaimedSize}
       /\ standIn.resultSize >= 1024
       /\ standIn.resultType = standIn.type

\* 20000 bytes at quality 0.57 came out as 5699 bytes
C27_Witness ==
  /\ standIn.phase = "done"
  /\ standIn.size = 20000
  /\ standIn.quality = 57
  /\ standIn.resultSize = 5699
  /\ standIn.resultType = standIn.type

\* ------------------------------------------------------------------------
\* Liveness of the busy state (LiveSpec)
\* ------------------------------------------------------------------------
StandInBusy ==
  /\ isCompressing
  /\ Len(pending) = 1
  /\ ~pending[1].real

\* C24: a compression in flight on the stand-in completes and the page
\* leaves the busy state, whatever else happens meanwhile
C24_StandInBusyEnds ==
  StandInBusy ~> ~isCompressing

\* a stand-in compression has ended after a tick of its interval and the
\* acceptance of another file
C24_Witness ==
  /\ ~isCompressing
  /\ pending = <<>>
  /\ lastOp = "compressSuccessReplaced"
  /\ ~isRealCompressorLoaded
  /\ toast.type = "success"

\* C31: every notification self-dismisses.  A live notification always has
\* its own dismissal timer pending, and with the timers firing a live
\* notification is always followed by a state without notification, whether
\* or not further notifications are emitted in between.
C31_NotificationSelfDismisses ==
  /\ [](toast # NoToast => (ownTimers >= 1 /\ toastTimers >= ownTimers))
  /\ (toast # NoToast) ~> (toast = NoToast)

\* the notification of clearHistory is live and its timer is the only one
\* pending
C31_Witness ==
  /\ toast # NoToast
  /\ toast.message = "Compression history cleared!"
  /\ lastOp = "clearHistory"
  /\ toastTimers = 1
  /\ ownTimers = 1

\* C32 as stated: in every upload attempt, the one with a missing file
\* included, the handler itself resets the file input's value, which is
\* empty afterwards.
C32_HandlerResetsInEveryAttempt ==
  [][UploadStep => (ResetsValue(lastOp') /\ inputValue' = EmptyValue)]_vars

\* C32: after every upload attempt, accepted or rejected, by the file input
\* or by a drop, the file input's value is empty, so that the identical
\* file can be selected again: the handler has reset it in the accepted,
\* wrong-type and oversized branches, and with a missing file it was empty
\* when the handler started.
C32_InputEmptyAfterEveryAttempt ==
  [][UploadStep =>
       /\ inputValue' = EmptyValue
       /\ \A file \in Files \cup {NoFile} :
            HandleFileChange(file) =>
              (ResetsValue(lastOp') \/ ChosenValue(file) = EmptyValue)]_vars

\* an attempt with a missing file has run and the input's value is empty
C32_Witness ==
  /\ lastOp = "uploadAbsent"
  /\ toast # NoToast
  /\ toast.message = "No file selected."
  /\ inputValue = EmptyValue
====
